---- MODULE Spec2Model ----
(***************************************************************************)
(* Model of the handle-indexed spin-lock table of Runtime/cpp~/Spinlock.cpp *)
(* (the build without __EMSCRIPTEN__).  Threads call the five exported      *)
(* operations; every access to shared memory is a step of its own, so the  *)
(* interleavings of the unsynchronised table and counter are explored.     *)
(***************************************************************************)
EXTENDS Integers, Sequences, FiniteSets, TLC

\* ------------------------------------------------------------- bounds
NThreads == 2
MaxCreates == 2

\* ------------------------------------------------- program constants
\* static int64_t s_NextKey(1);
InitialKey == 1

Threads == 1..NThreads
\* Handles a caller may pass: the reserved initial value (never issued) and
\* every key the bounded number of CreateSpinLock calls can produce.
Handles == InitialKey..(InitialKey + MaxCreates)

VARIABLES
    s_SpinLockMap,  \* the table: handle -> atomic_flag (TRUE = set = locked)
    s_NextKey,      \* the handle counter
    terminated,     \* std::terminate() (or a fault) has ended the process
    pc,             \* per thread: where it is inside its current call
    op,             \* per thread: the operation it is inside ("none" when idle)
    handle,         \* per thread: the handle argument of that call
    tmp,            \* per thread: the counter value loaded by s_NextKey++
    key,            \* per thread: CreateSpinLockImpl's local `key`
    dangling,       \* per thread: the flag reference it holds outlived its entry
    raced,          \* per thread: its table access overlapped a structural change
    spun,           \* per thread: its Lock call has gone round the loop
    last,           \* the call that ended in the step just taken, and how:
                    \*   thread, operation, handle, result ("true", "false",
                    \*   "void", "key", "terminate") and, for Create, the key
                    \*   returned; NoCall after a step that ended no call
    issued,         \* history: handles returned by Create, in completion order
    holders,        \* history: per handle, threads between a successful
                    \*          Lock/TryLock and their Unlock
    disciplined,    \* history: per handle, never destroyed and only ever
                    \*          unlocked by a thread holding it
    fresh,          \* history: per handle, created and since then touched by
                    \*          TryLock calls only
    tried,          \* history: per handle, some TryLock tested it while fresh
    trueCount,      \* history: per handle, TryLock calls that won it while fresh
    unlockedSince,  \* history: per handle, unlocked and not acquired since
    createOverlap,  \* history: two Create/Destroy calls ran at the same time
    stdoutMode,     \* stdout: its buffering ("none", "line", "full")
    stdoutBuf,      \* stdout: the bytes held in the stream's buffer
    stdoutOut,      \* stdout: the bytes that have reached the descriptor
    consoleText,    \* history: what the ConsoleWrite calls so far printed,
                    \*          in call order
    batchText,      \* history: the same, since the last BeginBatchConsoleWrite
    batching,       \* history: BeginBatchConsoleWrite has been called
    tsNano,         \* timestamp call: the tsNano argument
    bufferSize,     \* timestamp call: the bufferSize argument
    crt,            \* timestamp call: the C runtime the build links
    tzOffset,       \* timestamp call: local time minus UTC, in seconds
    fn,             \* timestamp call: the function called
    buffer,         \* timestamp call: the characters stored in the caller's
                    \*                 buffer, the closing NUL left out
    length,         \* timestamp call: the value returned
    tsState         \* timestamp call: "none", "called", "returned", "fault"

consoleVars == <<stdoutMode, stdoutBuf, stdoutOut, consoleText, batchText, batching>>
timeVars == <<tsNano, bufferSize, crt, tzOffset, fn, buffer, length, tsState>>

vars == <<s_SpinLockMap, s_NextKey, terminated, pc, op, handle, tmp, key,
          dangling, raced, spun, last, issued, holders, disciplined,
          fresh, tried, trueCount, unlockedSince, createOverlap,
          consoleVars, timeVars>>

progVars == <<s_SpinLockMap, s_NextKey, terminated>>
histVars == <<issued, holders, disciplined, fresh, tried,
              trueCount, unlockedSince, createOverlap>>
lockVars == <<progVars, pc, op, handle, tmp, key, dangling, raced, spun, histVars>>

\* ------------------------------------------------------ pure helpers
\* Mutant: the increment is left out.
Increment_Missing(v) == v

\* s_NextKey++ (the value stored back)
Increment(v) == v + 1

\* Mutant: the check for a missing handle is left out.
NotFound_Never(m, h) == FALSE

\* s_SpinLockMap.find(handle) == s_SpinLockMap.end()
NotFound(m, h) == h \notin DOMAIN m

\* Mutant: the flag of a new entry starts set.
Emplace_Set(m, k) ==
    IF k \in DOMAIN m THEN m
    ELSE [x \in (DOMAIN m) \cup {k} |-> IF x = k THEN TRUE ELSE m[x]]

\* unordered_map::emplace: inserts a cleared flag (the value-initialised
\* atomic_flag) unless the key is present
Emplace(m, k) ==
    IF k \in DOMAIN m THEN m
    ELSE [x \in (DOMAIN m) \cup {k} |-> IF x = k THEN FALSE ELSE m[x]]

\* Mutant: the whole table is emptied.
Erase_All(m, h) == [x \in {} |-> FALSE]

\* unordered_map::erase(key): removes the entry if there is one
Erase(m, h) == [x \in (DOMAIN m) \ {h} |-> m[x]]

\* Mutant: the flag is tested but not set.
TestAndSetFlag_NoSet(m, h) == m

\* atomic_flag::test_and_set: the flag afterwards
TestAndSetFlag(m, h) == [m EXCEPT ![h] = TRUE]

\* Mutants: the flag is not cleared; the flag is toggled instead of cleared.
ClearFlag_Noop(m, h) == m
ClearFlag_Toggle(m, h) == [m EXCEPT ![h] = ~@]

\* atomic_flag::clear
ClearFlag(m, h) == [m EXCEPT ![h] = FALSE]

\* Mutant: the comparison is the wrong way round.
TryLockResult_Inverted(old) == old

\* TryLockImpl: test_and_set(...) == false
TryLockResult(old) == old = FALSE

BoolStr(b) == IF b THEN "true" ELSE "false"

\* ------------------------------------------------------------- state
NoCall == [thread |-> 0, op |-> "none", handle |-> 0, result |-> "none", key |-> 0,
           spun |-> FALSE]
Structural == {"emplace", "erase"}
TableAccess == Structural \cup {"find"}

\* stdout as the process finds it: nothing written, buffering m.
StdoutOpen(m) ==
    /\ stdoutMode = m
    /\ stdoutBuf = << >>
    /\ stdoutOut = << >>
    /\ consoleText = << >>
    /\ batchText = << >>
    /\ batching = FALSE

\* No timestamp function has been called.
NoTimeStampCall ==
    /\ tsNano = 0
    /\ bufferSize = 0
    /\ crt = "none"
    /\ tzOffset = 0
    /\ fn = "none"
    /\ buffer = << >>
    /\ length = 0
    /\ tsState = "none"

\* The lock table as constructed; no thread is inside a call.
LockInit ==
    /\ s_SpinLockMap = [h \in {} |-> FALSE]
    /\ s_NextKey = InitialKey
    /\ terminated = FALSE
    /\ pc = [t \in Threads |-> "idle"]
    /\ op = [t \in Threads |-> "none"]
    /\ handle = [t \in Threads |-> 0]
    /\ tmp = [t \in Threads |-> 0]
    /\ key = [t \in Threads |-> 0]
    /\ dangling = [t \in Threads |-> FALSE]
    /\ raced = [t \in Threads |-> FALSE]
    /\ spun = [t \in Threads |-> FALSE]
    /\ last = NoCall
    /\ issued = << >>
    /\ holders = [h \in Handles |-> {}]
    /\ disciplined = [h \in Handles |-> TRUE]
    /\ fresh = [h \in Handles |-> FALSE]
    /\ tried = [h \in Handles |-> FALSE]
    /\ trueCount = [h \in Handles |-> 0]
    /\ unlockedSince = [h \in Handles |-> FALSE]
    /\ createOverlap = FALSE

Init ==
    /\ LockInit
    /\ StdoutOpen("line")
    /\ NoTimeStampCall

\* ------------------------------------------------------- table races
\* The table has no lock: a lookup that overlaps an insertion or removal, or
\* two overlapping insertions/removals, are data races.  A thread that starts
\* a table access marks itself and every access it conflicts with.
Conflicts(t, kinds) == {u \in Threads \ {t} : pc[u] \in kinds}

BeginAccess(t, kinds) ==
    raced' = [u \in Threads |->
                IF u = t THEN Conflicts(t, kinds) # {}
                ELSE IF u \in Conflicts(t, kinds) THEN TRUE
                ELSE raced[u]]

\* Outcomes of a raced access: it takes effect as if alone, its update is
\* lost, or the process faults.  An access that raced with nothing is exact.
StructuralOutcomes(t) == IF raced[t] THEN {"applied", "lost", "fault"} ELSE {"applied"}
LookupOutcomes(t) == IF raced[t] THEN {"exact", "fault"} ELSE {"exact"}

InCreateOrDestroy(u) == op[u] \in {"Create", "Destroy"}

\* The call of thread t ends the process (std::terminate() or a fault): no
\* thread runs any more; the table, the counter and the flags stay as they are.
Terminate(t) ==
    /\ terminated' = TRUE
    /\ pc' = [u \in Threads |-> "dead"]
    /\ op' = [u \in Threads |-> "none"]
    /\ handle' = [u \in Threads |-> 0]
    /\ tmp' = [u \in Threads |-> 0]
    /\ key' = [u \in Threads |-> 0]
    /\ dangling' = [u \in Threads |-> FALSE]
    /\ raced' = [u \in Threads |-> FALSE]
    /\ spun' = [u \in Threads |-> FALSE]
    /\ last' = [thread |-> t, op |-> op[t], handle |-> handle[t],
                result |-> "terminate", key |-> 0, spun |-> spun[t]]
    /\ UNCHANGED <<s_SpinLockMap, s_NextKey, histVars>>

\* The call of thread t returns result r (and key k, for Create).
Return(t, r, k) ==
    /\ pc' = [pc EXCEPT ![t] = "idle"]
    /\ op' = [op EXCEPT ![t] = "none"]
    /\ handle' = [handle EXCEPT ![t] = 0]
    /\ spun' = [spun EXCEPT ![t] = FALSE]
    /\ last' = [thread |-> t, op |-> op[t], handle |-> handle[t],
                result |-> r, key |-> k, spun |-> spun[t]]

\* ------------------------------------------------ CreateSpinLockImpl
\* Call, and the load of `s_NextKey++`.
CallCreate(t) ==
    /\ ~terminated
    /\ UNCHANGED <<consoleVars, timeVars>>
    /\ pc[t] = "idle"
    /\ Len(issued) + Cardinality({u \in Threads : op[u] = "Create"}) < MaxCreates
    /\ pc' = [pc EXCEPT ![t] = "inc_store"]
    /\ op' = [op EXCEPT ![t] = "Create"]
    /\ tmp' = [tmp EXCEPT ![t] = s_NextKey]
    /\ createOverlap' = (createOverlap \/ \E u \in Threads \ {t} : InCreateOrDestroy(u))
    /\ last' = NoCall
    /\ UNCHANGED <<progVars, handle, key, dangling, raced, spun, issued, holders,
                   disciplined, fresh, tried, trueCount, unlockedSince>>

\* The store of `s_NextKey++`.
IncStore(t) ==
    /\ ~terminated
    /\ UNCHANGED <<consoleVars, timeVars>>
    /\ pc[t] = "inc_store"
    /\ s_NextKey' = Increment(tmp[t])
    /\ pc' = [pc EXCEPT ![t] = "key_load"]
    /\ last' = NoCall
    /\ UNCHANGED <<s_SpinLockMap, terminated, op, handle, tmp, key, dangling,
                   raced, spun, histVars>>

\* `auto key = s_NextKey;` : the value just computed (kept in a register) or
\* the counter read again; then emplace begins.
KeyLoad(t) ==
    /\ ~terminated
    /\ UNCHANGED <<consoleVars, timeVars>>
    /\ pc[t] = "key_load"
    /\ \E k \in {Increment(tmp[t]), s_NextKey} :
          key' = [key EXCEPT ![t] = k]
    /\ tmp' = [tmp EXCEPT ![t] = 0]
    /\ pc' = [pc EXCEPT ![t] = "emplace"]
    /\ BeginAccess(t, TableAccess)
    /\ last' = NoCall
    /\ UNCHANGED <<progVars, op, handle, dangling, spun, histVars>>

\* emplace completes and CreateSpinLockImpl returns key.
EmplaceEnd(t) ==
    /\ ~terminated
    /\ UNCHANGED <<consoleVars, timeVars>>
    /\ pc[t] = "emplace"
    /\ \E outcome \in StructuralOutcomes(t) :
         IF outcome = "fault"
         THEN Terminate(t)
         ELSE LET k == key[t]
                  new == outcome = "applied" /\ k \notin DOMAIN s_SpinLockMap
              IN  /\ s_SpinLockMap' = IF outcome = "applied"
                                      THEN Emplace(s_SpinLockMap, k)
                                      ELSE s_SpinLockMap
                  /\ Return(t, "key", k)
                  /\ key' = [key EXCEPT ![t] = 0]
                  /\ raced' = [raced EXCEPT ![t] = FALSE]
                  /\ issued' = Append(issued, k)
                  /\ fresh' = IF new THEN [fresh EXCEPT ![k] = TRUE] ELSE fresh
                  /\ tried' = IF new THEN [tried EXCEPT ![k] = FALSE] ELSE tried
                  /\ trueCount' = IF new THEN [trueCount EXCEPT ![k] = 0] ELSE trueCount
                  /\ UNCHANGED <<s_NextKey, terminated, tmp, dangling, holders,
                                 disciplined, unlockedSince, createOverlap>>

\* ---------------------------------------------- RetrieveLockFromHandle
\* Lock / TryLock / Unlock are called: the lookup begins.
CallLookup(t, o, h) ==
    /\ ~terminated
    /\ UNCHANGED <<consoleVars, timeVars>>
    /\ pc[t] = "idle"
    /\ pc' = [pc EXCEPT ![t] = "find"]
    /\ op' = [op EXCEPT ![t] = o]
    /\ handle' = [handle EXCEPT ![t] = h]
    /\ BeginAccess(t, Structural)
    /\ last' = NoCall
    /\ UNCHANGED <<progVars, tmp, key, dangling, spun, histVars>>

CallLock(t, h) == CallLookup(t, "Lock", h)
CallTryLock(t, h) == CallLookup(t, "TryLock", h)
CallUnlock(t, h) == CallLookup(t, "Unlock", h)

\* find() returns: std::terminate() when the handle is missing, otherwise a
\* reference to the entry's flag.
FindEnd(t) ==
    /\ ~terminated
    /\ UNCHANGED <<consoleVars, timeVars>>
    /\ pc[t] = "find"
    /\ \E outcome \in LookupOutcomes(t) :
         IF NotFound(s_SpinLockMap, handle[t]) \/ outcome = "fault"
         THEN Terminate(t)
         ELSE /\ pc' = [pc EXCEPT ![t] = IF op[t] = "Unlock" THEN "clear" ELSE "tas"]
              /\ raced' = [raced EXCEPT ![t] = FALSE]
              /\ last' = NoCall
              /\ UNCHANGED <<progVars, op, handle, tmp, key, dangling, spun, histVars>>

\* The reference a thread holds no longer designates an entry of the table.
Dangling(t) == dangling[t] \/ handle[t] \notin DOMAIN s_SpinLockMap

\* -------------------------------------------- LockImpl / TryLockImpl
\* A Lock or TryLock call by t has just won handle h.
Acquire(t, h) ==
    /\ holders' = [holders EXCEPT ![h] = @ \cup {t}]
    /\ unlockedSince' = [unlockedSince EXCEPT ![h] = FALSE]

\* History of the calls that tested h since it was created.
NoteTest(t, h, won) ==
    IF op[t] = "TryLock"
    THEN /\ tried' = [tried EXCEPT ![h] = fresh[h]]
         /\ trueCount' = [trueCount EXCEPT
                            ![h] = IF fresh[h] /\ won THEN @ + 1 ELSE @]
         /\ fresh' = fresh
    ELSE /\ fresh' = [fresh EXCEPT ![h] = FALSE]
         /\ tried' = [tried EXCEPT ![h] = FALSE]
         /\ trueCount' = [trueCount EXCEPT ![h] = 0]

\* What the caller does with the value test_and_set returned: TryLock returns
\* its negation, Lock returns true on a clear flag and otherwise goes round
\* the loop, which calls RetrieveLockFromHandle again.
AfterTest(t, old) ==
    IF op[t] = "TryLock"
    THEN /\ Return(t, BoolStr(TryLockResult(old)), 0)
         /\ raced' = raced
    ELSE IF old
    THEN /\ pc' = [pc EXCEPT ![t] = "find"]
         /\ BeginAccess(t, Structural)
         /\ spun' = [spun EXCEPT ![t] = TRUE]
         /\ last' = NoCall
         /\ UNCHANGED <<op, handle>>
    ELSE /\ Return(t, "true", 0)
         /\ raced' = raced

\* Whether the call returns true, having read `old` from the flag.
Won(t, old) == IF op[t] = "TryLock" THEN TryLockResult(old) ELSE ~old

\* test_and_set on the flag the lookup returned.
TestAndSet(t) ==
    /\ ~terminated
    /\ UNCHANGED <<consoleVars, timeVars>>
    /\ pc[t] = "tas"
    /\ ~Dangling(t)
    /\ LET h == handle[t]
           old == s_SpinLockMap[h]
       IN  /\ s_SpinLockMap' = TestAndSetFlag(s_SpinLockMap, h)
           /\ AfterTest(t, old)
           /\ NoteTest(t, h, Won(t, old))
           /\ IF Won(t, old)
              THEN Acquire(t, h)
              ELSE UNCHANGED <<holders, unlockedSince>>
    /\ UNCHANGED <<s_NextKey, terminated, tmp, key, dangling, issued,
                   disciplined, createOverlap>>

\* test_and_set through a reference whose entry has been erased: the flag
\* lives in freed storage, so the value read is arbitrary or the access faults.
TestAndSetDangling(t) ==
    /\ ~terminated
    /\ UNCHANGED <<consoleVars, timeVars>>
    /\ pc[t] = "tas"
    /\ Dangling(t)
    /\ \E outcome \in {"set", "clear", "fault"} :
         IF outcome = "fault"
         THEN Terminate(t)
         ELSE /\ AfterTest(t, outcome = "set")
              /\ dangling' = [dangling EXCEPT ![t] = FALSE]
              /\ UNCHANGED <<progVars, tmp, key, histVars>>

\* --------------------------------------------------------- UnlockImpl
\* clear() on the flag the lookup returned; no ownership check.
Clear(t) ==
    /\ ~terminated
    /\ UNCHANGED <<consoleVars, timeVars>>
    /\ pc[t] = "clear"
    /\ ~Dangling(t)
    /\ LET h == handle[t]
       IN  /\ s_SpinLockMap' = ClearFlag(s_SpinLockMap, h)
           /\ holders' = [holders EXCEPT ![h] = @ \ {t}]
           /\ disciplined' = [disciplined EXCEPT ![h] = @ /\ t \in holders[h]]
           /\ unlockedSince' = [unlockedSince EXCEPT ![h] = TRUE]
           /\ fresh' = [fresh EXCEPT ![h] = FALSE]
           /\ tried' = [tried EXCEPT ![h] = FALSE]
           /\ trueCount' = [trueCount EXCEPT ![h] = 0]
    /\ Return(t, "void", 0)
    /\ UNCHANGED <<s_NextKey, terminated, tmp, key, dangling, raced,
                   issued, createOverlap>>

\* clear() through a reference whose entry has been erased.
ClearDangling(t) ==
    /\ ~terminated
    /\ UNCHANGED <<consoleVars, timeVars>>
    /\ pc[t] = "clear"
    /\ Dangling(t)
    /\ \E outcome \in {"done", "fault"} :
         IF outcome = "fault"
         THEN Terminate(t)
         ELSE /\ Return(t, "void", 0)
              /\ dangling' = [dangling EXCEPT ![t] = FALSE]
              /\ UNCHANGED <<progVars, tmp, key, raced, histVars>>

\* ------------------------------------------------ DestroySpinLockImpl
\* DestroySpinLock is called: erase begins.
CallDestroy(t, h) ==
    /\ ~terminated
    /\ UNCHANGED <<consoleVars, timeVars>>
    /\ pc[t] = "idle"
    /\ pc' = [pc EXCEPT ![t] = "erase"]
    /\ op' = [op EXCEPT ![t] = "Destroy"]
    /\ handle' = [handle EXCEPT ![t] = h]
    /\ BeginAccess(t, TableAccess)
    /\ createOverlap' = (createOverlap \/ \E u \in Threads \ {t} : InCreateOrDestroy(u))
    /\ last' = NoCall
    /\ UNCHANGED <<progVars, tmp, key, dangling, spun, issued, holders,
                   disciplined, fresh, tried, trueCount, unlockedSince>>

\* erase completes and DestroySpinLockImpl returns.  References other threads
\* hold to the erased entry's flag dangle from here on.
EraseEnd(t) ==
    /\ ~terminated
    /\ UNCHANGED <<consoleVars, timeVars>>
    /\ pc[t] = "erase"
    /\ \E outcome \in StructuralOutcomes(t) :
         IF outcome = "fault"
         THEN Terminate(t)
         ELSE LET h == handle[t]
                  present == h \in DOMAIN s_SpinLockMap
                  gone == present /\ outcome = "applied"
              IN  /\ s_SpinLockMap' = IF outcome = "applied"
                                      THEN Erase(s_SpinLockMap, h)
                                      ELSE s_SpinLockMap
                  /\ dangling' = [u \in Threads |->
                                    dangling[u] \/ (gone /\ handle[u] = h
                                                    /\ pc[u] \in {"tas", "clear"})]
                  /\ Return(t, "void", 0)
                  /\ raced' = [raced EXCEPT ![t] = FALSE]
                  /\ disciplined' = IF present
                                    THEN [disciplined EXCEPT ![h] = FALSE]
                                    ELSE disciplined
                  /\ holders' = IF gone THEN [holders EXCEPT ![h] = {}] ELSE holders
                  /\ fresh' = IF present THEN [fresh EXCEPT ![h] = FALSE] ELSE fresh
                  /\ tried' = IF present THEN [tried EXCEPT ![h] = FALSE] ELSE tried
                  /\ trueCount' = IF present THEN [trueCount EXCEPT ![h] = 0]
                                  ELSE trueCount
                  /\ unlockedSince' = IF gone
                                      THEN [unlockedSince EXCEPT ![h] = FALSE]
                                      ELSE unlockedSince
                  /\ UNCHANGED <<s_NextKey, terminated, tmp, key, issued, createOverlap>>

\* ------------------------------------------------------ specification
\* A step a thread takes inside a call it has made.
ThreadStep(t) ==
    \/ IncStore(t)
    \/ KeyLoad(t)
    \/ EmplaceEnd(t)
    \/ FindEnd(t)
    \/ TestAndSet(t)
    \/ TestAndSetDangling(t)
    \/ Clear(t)
    \/ ClearDangling(t)
    \/ EraseEnd(t)

\* A call the host makes on a thread that is not inside one.
ThreadCall(t) ==
    \/ CallCreate(t)
    \/ \E h \in Handles :
         \/ CallLock(t, h)
         \/ CallTryLock(t, h)
         \/ CallUnlock(t, h)
         \/ CallDestroy(t, h)

Next == \E t \in Threads : ThreadCall(t) \/ ThreadStep(t)

Spec == Init /\ [][Next]_vars

\* ------------------------------------- lock traffic on an existing token
\* The state right after thread 1 has made the first CreateSpinLock call of
\* the process and no other call has been made.
FirstKey == Increment(InitialKey)

AfterFirstCreate ==
    /\ s_SpinLockMap = Emplace([h \in {} |-> FALSE], FirstKey)
    /\ s_NextKey = FirstKey
    /\ terminated = FALSE
    /\ pc = [t \in Threads |-> "idle"]
    /\ op = [t \in Threads |-> "none"]
    /\ handle = [t \in Threads |-> 0]
    /\ tmp = [t \in Threads |-> 0]
    /\ key = [t \in Threads |-> 0]
    /\ dangling = [t \in Threads |-> FALSE]
    /\ raced = [t \in Threads |-> FALSE]
    /\ spun = [t \in Threads |-> FALSE]
    /\ last = [thread |-> 1, op |-> "Create", handle |-> 0, result |-> "key",
               key |-> FirstKey, spun |-> FALSE]
    /\ issued = <<FirstKey>>
    /\ holders = [h \in Handles |-> {}]
    /\ disciplined = [h \in Handles |-> TRUE]
    /\ fresh = [h \in Handles |-> h = FirstKey]
    /\ tried = [h \in Handles |-> FALSE]
    /\ trueCount = [h \in Handles |-> 0]
    /\ unlockedSince = [h \in Handles |-> FALSE]
    /\ createOverlap = FALSE
    /\ StdoutOpen("line")
    /\ NoTimeStampCall

\* The steps of Lock, TryLock and Unlock calls.
LockStep(t) ==
    \/ FindEnd(t)
    \/ TestAndSet(t)
    \/ Clear(t)

LockCall(t) ==
    \E h \in Handles :
        \/ CallLock(t, h)
        \/ CallTryLock(t, h)
        \/ CallUnlock(t, h)

LockNext == \E t \in Threads : LockCall(t) \/ LockStep(t)

\* Threads lock and unlock while no token is created or destroyed.
\* Preemptive threads: a thread inside a call keeps executing.
LockFairSpec ==
    /\ AfterFirstCreate
    /\ [][LockNext]_vars
    /\ \A t \in Threads : WF_vars(LockStep(t))

\* ------------------------------------------------ single-threaded build
\* With __EMSCRIPTEN__ defined the table, the counter and the Impl functions
\* are compiled out; the exported operations are these bodies.
WebHandle == 42

\* Handle arguments: one never returned (0), the one CreateSpinLock returns,
\* and another one.
WebHandles == {0, WebHandle, WebHandle + 1}

\* The only thread of the build.
WebThread == 1

\* CreateSpinLock: `return 42;`
WebCreateSpinLock == WebHandle

\* Mutant: Lock and TryLock report failure.
WebLockResult_False(h) == FALSE

\* Lock, TryLock: `return true;`
WebLockResult(h) == TRUE

WebInit ==
    /\ s_SpinLockMap = [h \in {} |-> FALSE]
    /\ s_NextKey = InitialKey
    /\ terminated = FALSE
    /\ pc = [t \in Threads |-> "idle"]
    /\ op = [t \in Threads |-> "none"]
    /\ handle = [t \in Threads |-> 0]
    /\ tmp = [t \in Threads |-> 0]
    /\ key = [t \in Threads |-> 0]
    /\ dangling = [t \in Threads |-> FALSE]
    /\ raced = [t \in Threads |-> FALSE]
    /\ spun = [t \in Threads |-> FALSE]
    /\ last = NoCall
    /\ issued = << >>
    /\ holders = [h \in WebHandles |-> {}]
    /\ disciplined = [h \in WebHandles |-> TRUE]
    /\ fresh = [h \in WebHandles |-> FALSE]
    /\ tried = [h \in WebHandles |-> FALSE]
    /\ trueCount = [h \in WebHandles |-> 0]
    /\ unlockedSince = [h \in WebHandles |-> FALSE]
    /\ createOverlap = FALSE
    /\ StdoutOpen("line")
    /\ NoTimeStampCall

\* What a call leaves alone: everything but the record of the call and the
\* history of what the caller believes about handle h.
WebFrame ==
    UNCHANGED <<progVars, pc, op, handle, tmp, key, dangling, raced, spun, issued,
                fresh, tried, unlockedSince, createOverlap, consoleVars, timeVars>>

WebReturned(o, h, r, k) ==
    last' = [thread |-> WebThread, op |-> o, handle |-> h, result |-> r,
             key |-> k, spun |-> FALSE]

WebCreate ==
    /\ WebReturned("Create", 0, "key", WebCreateSpinLock)
    /\ WebFrame
    /\ UNCHANGED <<holders, disciplined, trueCount>>

\* History: holders[h] has the thread from a call that returned true until
\* its Unlock; trueCount[h] counts the calls that returned true since the
\* last Unlock(h) (2 stands for two or more).
WebAcquire(o, h) ==
    /\ WebReturned(o, h, BoolStr(WebLockResult(h)), 0)
    /\ WebFrame
    /\ holders' = IF WebLockResult(h) THEN [holders EXCEPT ![h] = @ \cup {WebThread}]
                  ELSE holders
    /\ trueCount' = IF WebLockResult(h) /\ trueCount[h] < 2
                    THEN [trueCount EXCEPT ![h] = @ + 1]
                    ELSE trueCount
    /\ UNCHANGED disciplined

WebLock(h) == WebAcquire("Lock", h)
WebTryLock(h) == WebAcquire("TryLock", h)

\* Unlock: `return;`
WebUnlock(h) ==
    /\ WebReturned("Unlock", h, "void", 0)
    /\ WebFrame
    /\ holders' = [holders EXCEPT ![h] = {}]
    /\ trueCount' = [trueCount EXCEPT ![h] = 0]
    /\ UNCHANGED disciplined

\* DestroySpinLock: `return;`  History: disciplined[h] is FALSE from here on.
WebDestroySpinLock(h) ==
    /\ WebReturned("Destroy", h, "void", 0)
    /\ WebFrame
    /\ disciplined' = [disciplined EXCEPT ![h] = FALSE]
    /\ UNCHANGED <<holders, trueCount>>

WebNext ==
    \/ WebCreate
    \/ \E h \in WebHandles :
         \/ WebLock(h)
         \/ WebTryLock(h)
         \/ WebUnlock(h)
         \/ WebDestroySpinLock(h)

WebSpec == WebInit /\ [][WebNext]_vars

\* ------------------------------------------------------------- console
\* Bytes of a caller's buffer: NUL, line feed and a letter.
Nul == 0
NewLine == 10
Letter == 97
Bytes == {Nul, NewLine, Letter}

\* Longest byteBuffer a caller passes, and the most text the calls print.
MaxLen == 2
MaxBytes == 4

\* Capacity of the buffer BeginBatchConsoleWrite installs (`n`, 8192 in the
\* source), scaled down so that a batch can exceed it.
BufSize == 2

RECURSIVE SeqsUpTo(_)
SeqsUpTo(n) ==
    IF n = 0 THEN {<< >>}
    ELSE LET shorter == SeqsUpTo(n - 1)
         IN  shorter \cup {Append(b, c) : b \in {x \in shorter : Len(x) = n - 1},
                                          c \in Bytes}

ByteBuffers == SeqsUpTo(MaxLen)

\* newLine is an int8_t
NewLineFlags == {0, 1, -1}

\* The C string that starts at b: the bytes before its first NUL.
RECURSIVE CString(_)
CString(b) ==
    IF b = << >> \/ Head(b) = Nul THEN << >>
    ELSE <<Head(b)>> \o CString(Tail(b))

\* Mutant: the terminator is left out.
Terminator_None(newLine) == << >>

\* newLine ? "\n" : ""
Terminator(newLine) == IF newLine # 0 THEN <<NewLine>> ELSE << >>

\* What printf("%.*s%s", numBytes, byteBuffer, ...) prints: at most numBytes
\* bytes of the C string at byteBuffer, then the terminator.
PrintfText(byteBuffer, numBytes, newLine) ==
    LET str == CString(byteBuffer)
    IN  SubSeq(str, 1, IF numBytes < Len(str) THEN numBytes ELSE Len(str))
            \o Terminator(newLine)

\* The stream as a record: the bytes buffered and the bytes written out.
Stdout == [buf |-> stdoutBuf, out |-> stdoutOut]

\* Mutant: the buffered bytes are discarded.
FlushStream_Discard(st) == [buf |-> << >>, out |-> st.out]

\* fflush: the buffered bytes go out, in order.
FlushStream(st) == [buf |-> << >>, out |-> st.out \o st.buf]

\* One byte is put into the stream: a full buffer is written out first; an
\* unbuffered stream, and a line-buffered one after a line feed, writes out
\* at once.
PutByte(mode, st, c) ==
    LET room == IF Len(st.buf) >= BufSize THEN FlushStream(st) ELSE st
        put == [room EXCEPT !.buf = Append(@, c)]
    IN  IF mode = "none" \/ (mode = "line" /\ c = NewLine)
        THEN FlushStream(put)
        ELSE put

RECURSIVE PutBytes(_, _, _)
PutBytes(mode, st, bytes) ==
    IF bytes = << >> THEN st
    ELSE PutBytes(mode, PutByte(mode, st, Head(bytes)), Tail(bytes))

ConsoleReturned(o) ==
    last' = [thread |-> 0, op |-> o, handle |-> 0, result |-> "void", key |-> 0,
             spun |-> FALSE]

ConsoleWrite(byteBuffer, numBytes, newLine) ==
    LET text == PrintfText(byteBuffer, numBytes, newLine)
        st == PutBytes(stdoutMode, Stdout, text)
    IN  /\ Len(consoleText) + Len(text) <= MaxBytes
        /\ stdoutBuf' = st.buf
        /\ stdoutOut' = st.out
        /\ consoleText' = consoleText \o text
        /\ batchText' = IF batching THEN batchText \o text ELSE batchText
        /\ ConsoleReturned("ConsoleWrite")
        /\ UNCHANGED <<stdoutMode, batching, lockVars, timeVars>>

\* setvbuf(stdout, buf, _IOFBF, n) on a stream that may have been written to:
\* the library writes the buffered bytes out first, or keeps them buffered,
\* or does not honour the request (the return value is not looked at).
BeginBatchConsoleWrite ==
    /\ \E outcome \in {"flushed", "kept", "refused"} :
          /\ stdoutMode' = IF outcome = "refused" THEN stdoutMode ELSE "full"
          /\ stdoutBuf' = IF outcome = "flushed" THEN FlushStream(Stdout).buf
                          ELSE stdoutBuf
          /\ stdoutOut' = IF outcome = "flushed" THEN FlushStream(Stdout).out
                          ELSE stdoutOut
    /\ batching' = TRUE
    /\ batchText' = << >>
    /\ ConsoleReturned("BeginBatchConsoleWrite")
    /\ UNCHANGED <<consoleText, lockVars, timeVars>>

FlushCalled(o) ==
    /\ stdoutBuf' = FlushStream(Stdout).buf
    /\ stdoutOut' = FlushStream(Stdout).out
    /\ ConsoleReturned(o)
    /\ UNCHANGED <<stdoutMode, consoleText, batchText, batching, lockVars, timeVars>>

Flush == FlushCalled("Flush")

\* EndBatchConsoleWrite: Flush(); the buffering stays as it is.
EndBatchConsoleWrite == FlushCalled("EndBatchConsoleWrite")

\* stdout starts unbuffered, line buffered or fully buffered, as the
\* environment has it.
ConsoleInit ==
    /\ LockInit
    /\ \E m \in {"none", "line", "full"} : StdoutOpen(m)
    /\ NoTimeStampCall

ConsoleNext ==
    \/ \E b \in ByteBuffers : \E n \in 0..Len(b) : \E nl \in NewLineFlags :
          ConsoleWrite(b, n, nl)
    \/ BeginBatchConsoleWrite
    \/ Flush
    \/ EndBatchConsoleWrite

ConsoleSpec == ConsoleInit /\ [][ConsoleNext]_vars

\* ---------------------------------------------------------- timestamps
NanoPerSecond == 1000000000
NanoPerMilli == 1000000
SecondsPerDay == 86400

\* tsNano arguments: both signs, on and off second and millisecond boundaries.
TimeStamps ==
    {-1999999999, -1000000000, -999999999, -5000000, -1, 0, 1, 999999,
     1000000, 999999999, 1000000000, 1234567890}

\* bufferSize arguments: too small, just too small, just enough, ample.
BufferSizes == {1, 12, 13, 23, 24, 32}

\* C runtimes: one whose localtime converts every time_t in range, one whose
\* localtime returns NULL for a time before the epoch.
Runtimes == {"posix", "msvc"}

\* Local time minus UTC, in seconds.
TzOffsets == {-18000, 0, 3600}

Formatters == {"GetFormattedTimeStampString", "GetFormattedTimeStampStringForFileNameNative"}

\* C++ integer division and remainder: the quotient is truncated toward
\* zero and the remainder has the sign of the dividend (b > 0).
TruncDiv(a, b) == IF a >= 0 THEN a \div b ELSE -((-a) \div b)
TruncRem(a, b) == a - b * TruncDiv(a, b)

\* int64_t ts = tsNano / 1000000000;
Seconds(ns) == TruncDiv(ns, NanoPerSecond)

\* int32_t tsMSec = (int32_t)((tsNano % 1000000000) / 1000000);
MilliSeconds(ns) == TruncDiv(TruncRem(ns, NanoPerSecond), NanoPerMilli)

\* Calendar date of a day number (days since 1970-01-01), proleptic
\* Gregorian calendar.
CivilFromDays(days) ==
    LET z == days + 719468
        era == z \div 146097
        doe == z - era * 146097
        yoe == (doe - doe \div 1460 + doe \div 36524 - doe \div 146096) \div 365
        doy == doe - (365 * yoe + yoe \div 4 - yoe \div 100)
        mp == (5 * doy + 2) \div 153
        d == doy - (153 * mp + 2) \div 5 + 1
        m == IF mp < 10 THEN mp + 3 ELSE mp - 9
        y == yoe + era * 400 + (IF m <= 2 THEN 1 ELSE 0)
    IN  [year |-> y, month |-> m, day |-> d]

\* struct tm of a local time given in seconds since the epoch.
BrokenDown(local) ==
    LET date == CivilFromDays(local \div SecondsPerDay)
        sod == local % SecondsPerDay
    IN  [tm_year |-> date.year - 1900, tm_mon |-> date.month - 1,
         tm_mday |-> date.day, tm_hour |-> sod \div 3600,
         tm_min |-> (sod % 3600) \div 60, tm_sec |-> sod % 60]

\* The null pointer: no struct tm.
Null == [tm_null |-> TRUE]

\* localtime(&ts)
Localtime(ts, runtime, tz) ==
    IF runtime = "msvc" /\ ts < 0 THEN Null ELSE BrokenDown(ts + tz)

\* What reading the fields through a null pointer yields when it does not
\* fault.
GarbageTm ==
    {[tm_year |-> 0, tm_mon |-> 0, tm_mday |-> 0, tm_hour |-> 0, tm_min |-> 0,
      tm_sec |-> 0]}

Digit(d) == <<"0", "1", "2", "3", "4", "5", "6", "7", "8", "9">>[d + 1]

RECURSIVE DecDigits(_)
DecDigits(v) ==
    IF v < 10 THEN <<Digit(v)>>
    ELSE Append(DecDigits(v \div 10), Digit(v % 10))

RECURSIVE ZeroPad(_, _)
ZeroPad(digits, p) ==
    IF Len(digits) >= p THEN digits ELSE ZeroPad(<<"0">> \o digits, p)

\* printf conversion %.<p>d: at least p digits, a minus sign before them for
\* a negative value.
FormatD(v, p) ==
    IF v < 0 THEN <<"-">> \o ZeroPad(DecDigits(-v), p)
    ELSE ZeroPad(DecDigits(v), p)

\* "%.4d-%.2d-%.2d %.2d:%.2d:%.2d,%.3d"
TimeStampText(t, ms) ==
    FormatD(t.tm_year + 1900, 4) \o <<"-">> \o FormatD(t.tm_mon + 1, 2) \o <<"-">>
        \o FormatD(t.tm_mday, 2) \o <<" ">> \o FormatD(t.tm_hour, 2) \o <<":">>
        \o FormatD(t.tm_min, 2) \o <<":">> \o FormatD(t.tm_sec, 2) \o <<",">>
        \o FormatD(ms, 3)

\* "%.4d%.2d%.2d%.2d%.2d"
FileNameText(t) ==
    FormatD(t.tm_year + 1900, 4) \o FormatD(t.tm_mon + 1, 2) \o FormatD(t.tm_mday, 2)
        \o FormatD(t.tm_hour, 2) \o FormatD(t.tm_min, 2)

FormattedText(f, t, ns) ==
    IF f = "GetFormattedTimeStampString"
    THEN TimeStampText(t, MilliSeconds(ns))
    ELSE FileNameText(t)

\* snprintf(buffer, size, ...): the characters it stores (size - 1 at most,
\* the closing NUL not counted).
SnprintfStored(text, size) ==
    SubSeq(text, 1, IF Len(text) < size - 1 THEN Len(text) ELSE size - 1)

\* Mutant: the number of characters stored is returned.
SnprintfResult_Stored(text, size) == Len(SnprintfStored(text, size))

\* snprintf's return value: the number of characters the complete text has.
SnprintfResult(text, size) == Len(text)

\* return length < 0 ? 0 : length;
ReturnedLength(len) == IF len < 0 THEN 0 ELSE len

\* The host: its C runtime and time zone are fixed for the process.
TimeInit ==
    /\ LockInit
    /\ StdoutOpen("line")
    /\ tsNano = 0
    /\ bufferSize = 0
    /\ crt \in Runtimes
    /\ tzOffset \in TzOffsets
    /\ fn = "none"
    /\ buffer = << >>
    /\ length = 0
    /\ tsState = "none"

\* One call of a formatting function.  tptr is dereferenced unchecked: when
\* localtime returned NULL the call faults or formats whatever it reads.
FormatTimeStamp(f, ns, size) ==
    /\ tsState # "fault"
    /\ tsNano' = ns
    /\ bufferSize' = size
    /\ fn' = f
    /\ LET tptr == Localtime(Seconds(ns), crt, tzOffset)
       IN  \E t \in (IF tptr = Null THEN GarbageTm \cup {Null} ELSE {tptr}) :
              IF t = Null
              THEN /\ tsState' = "fault"
                   /\ UNCHANGED <<buffer, length>>
              ELSE LET text == FormattedText(f, t, ns)
                   IN  /\ tsState' = "returned"
                       /\ buffer' = SnprintfStored(text, size)
                       /\ length' = ReturnedLength(SnprintfResult(text, size))
    /\ UNCHANGED <<crt, tzOffset, lockVars, last, consoleVars>>

GetFormattedTimeStampString(ns, size) ==
    FormatTimeStamp("GetFormattedTimeStampString", ns, size)

GetFormattedTimeStampStringForFileNameNative(ns, size) ==
    FormatTimeStamp("GetFormattedTimeStampStringForFileNameNative", ns, size)

TimeNext ==
    \E ns \in TimeStamps : \E size \in BufferSizes :
        \/ GetFormattedTimeStampString(ns, size)
        \/ GetFormattedTimeStampStringForFileNameNative(ns, size)

TimeSpec == TimeInit /\ [][TimeNext]_vars

\* ============================================================== claims
Live == DOMAIN s_SpinLockMap
LastIs(o, r) == last.op = o /\ last.result = r

\* C1: mutual exclusion per handle.  For a live handle that nobody has
\* destroyed and that is unlocked only by threads holding it, at most one
\* thread is between a successful Lock/TryLock and its Unlock, the flag is set
\* while a thread holds it, and a Lock/TryLock that has just returned true
\* leaves its caller the only holder (so no TryLock of another thread returns
\* true, and no Lock of another thread returns, while the handle is held).
C1_MutualExclusion ==
    \A h \in Live :
        disciplined[h] =>
            /\ Cardinality(holders[h]) <= 1
            /\ holders[h] # {} => s_SpinLockMap[h]
            /\ (last.handle = h /\ last.op \in {"Lock", "TryLock"}
                    /\ last.result = "true") => holders[h] = {last.thread}

\* C1 witness: a TryLock has just returned false to a thread while another
\* thread holds the handle.
C1_Witness ==
    \E h \in Live :
        /\ disciplined[h]
        /\ last.handle = h /\ LastIs("TryLock", "false")
        /\ holders[h] # {} /\ last.thread \notin holders[h]

\* C2: of the TryLock calls that test a freshly created token (no Lock,
\* Unlock or Destroy of it since its creation), exactly one returns true.
C2_ExactlyOneTryLockWins ==
    \A h \in Handles : (fresh[h] /\ tried[h]) => trueCount[h] = 1

\* C2 witness: a second TryLock on a fresh token has just returned false, the
\* first one having won it.
C2_Witness ==
    \E h \in Live :
        /\ fresh[h] /\ tried[h] /\ trueCount[h] = 1
        /\ last.handle = h /\ LastIs("TryLock", "false")
        /\ holders[h] # {} /\ last.thread \notin holders[h]

\* C3 (as claimed): the handles Create returns, in the order the calls
\* complete, are strictly increasing (hence pairwise distinct), also when the
\* calls run concurrently.
C3_HandlesStrictlyIncreasing ==
    \A i, j \in 1..Len(issued) : i < j => issued[i] < issued[j]

\* C4: a handle is never reused in a sequence of Create and Destroy calls (no
\* two of them running at the same time): every handle Create returns differs
\* from all handles returned before, destroyed or not.
C4_NoReuse ==
    ~createOverlap =>
        \A i, j \in 1..Len(issued) : i < j => issued[i] # issued[j]

\* C4 witness: Create has just returned a second handle after the first one
\* was destroyed, no Create/Destroy calls having overlapped.
C4_Witness ==
    /\ ~createOverlap
    /\ Len(issued) = 2
    /\ issued[1] \notin Live
    /\ LastIs("Create", "key") /\ last.key = issued[2]

\* C5 (as claimed): no insertion or removal overlaps in time with a lookup,
\* insertion or removal of another thread.
C5_TableAccessExclusive ==
    \A t, u \in Threads :
        t # u => ~(pc[t] \in Structural /\ pc[u] \in TableAccess)

\* C6: when the lookup of a Lock, TryLock or Unlock call ends and the handle
\* is not in the table, the process terminates: the call returns nothing, and
\* the table with its flags and the handle counter are as before.
C6_MissingHandleTerminates ==
    [][\A t \in Threads :
          (pc[t] = "find" /\ handle[t] \notin Live /\ pc'[t] # "find") =>
              /\ terminated'
              /\ last'.result = "terminate"
              /\ s_SpinLockMap' = s_SpinLockMap
              /\ s_NextKey' = s_NextKey]_vars

\* C6 witness: Unlock of a handle that was issued and then destroyed has
\* terminated the process.
C6_Witness ==
    /\ terminated
    /\ LastIs("Unlock", "terminate")
    /\ last.handle \notin Live
    /\ \E i \in 1..Len(issued) : issued[i] = last.handle

\* C7 (as claimed): a handle that is not in the table terminates the process
\* in every one of the operations that take a handle, DestroySpinLock included.
C7_DestroyMissingTerminates ==
    [][\A t \in Threads :
          (pc[t] \in {"find", "erase"} /\ handle[t] \notin Live
              /\ pc'[t] # pc[t]) => terminated']_vars

\* C8: a TryLock that tests a live token which was unlocked and has not been
\* acquired since returns true.
C8_TryLockAfterUnlock ==
    [][\A t \in Threads :
          (pc[t] = "tas" /\ op[t] = "TryLock" /\ handle[t] \in Live
              /\ ~dangling[t] /\ unlockedSince[handle[t]] /\ pc'[t] = "idle") =>
              (last'.thread = t /\ last'.result = "true")]_vars

\* C8 witness: TryLock has just returned true on a token that was used
\* before (it is not fresh, so its flag was cleared by an Unlock).
C8_Witness ==
    /\ LastIs("TryLock", "true")
    /\ last.handle \in Live
    /\ ~fresh[last.handle]
    /\ holders[last.handle] = {last.thread}

\* C9: Unlock of a live handle, by any thread, leaves its flag clear; an
\* already clear flag stays as it is; no other flag, the set of handles in
\* the table and the handle counter change, and the process keeps running.
C9_UnlockUnconditional ==
    [][\A t \in Threads :
          (pc[t] = "clear" /\ handle[t] \in Live /\ ~dangling[t]
              /\ pc'[t] = "idle") =>
              /\ DOMAIN s_SpinLockMap' = Live
              /\ s_SpinLockMap'[handle[t]] = FALSE
              /\ \A g \in Live \ {handle[t]} : s_SpinLockMap'[g] = s_SpinLockMap[g]
              /\ (~s_SpinLockMap[handle[t]] => s_SpinLockMap' = s_SpinLockMap)
              /\ s_NextKey' = s_NextKey
              /\ ~terminated']_vars

\* C9 witness: Unlock has just returned to a thread that did not hold the
\* handle while another thread does; the flag is clear.
C9_Witness ==
    /\ LastIs("Unlock", "void")
    /\ last.handle \in Live
    /\ holders[last.handle] # {}
    /\ last.thread \notin holders[last.handle]
    /\ ~s_SpinLockMap[last.handle]
\* Some thread is inside Lock(h), looking the handle up or testing its flag.
Spinning(h) ==
    \E t \in Threads : op[t] = "Lock" /\ handle[t] = h /\ pc[t] \in {"find", "tas"}

\* The step just taken returned true from a call of one of `ops` on h.
Acquired(h, ops) == last.handle = h /\ last.op \in ops /\ last.result = "true"

\* Every thread that acquires h unlocks it again: h is free again and again.
HoldersRelease(h) == []<>(holders[h] = {})

\* Lock returns true or not at all.
LockNeverFalse == [](last.op = "Lock" => last.result \in {"true", "terminate"})

\* C10 (as claimed): under fair scheduling, if the holders of h always unlock
\* it, then whenever a thread is spinning in Lock(h), some Lock(h) call
\* eventually returns true (unless the process terminates or h is destroyed);
\* and Lock never returns false.
C10_SomeLockReturns ==
    /\ \A h \in Handles :
          HoldersRelease(h) =>
              (Spinning(h) ~> (Acquired(h, {"Lock"}) \/ terminated \/ h \notin Live))
    /\ LockNeverFalse

\* C10 (amended): under the same conditions some Lock(h) or TryLock(h) call
\* eventually returns true; and Lock never returns false.
C10_SomeCallAcquires ==
    /\ \A h \in Handles :
          HoldersRelease(h) =>
              (Spinning(h) ~> (Acquired(h, {"Lock", "TryLock"}) \/ terminated
                                  \/ h \notin Live))
    /\ LockNeverFalse

\* C10 witness: a Lock call that found the flag set, and so went round its
\* loop, has just returned true.
C10_Witness ==
    /\ LastIs("Lock", "true")
    /\ last.spun

\* C11: a CreateSpinLock call that overlaps no other Create/Destroy call and
\* no table access of another thread returns a handle that is then in the
\* table with its flag clear; a TryLock that tests a token on which no
\* operation has acted since its creation returns true; every handle issued
\* is greater than the initial counter value (so never 0), and the first one
\* issued by non-overlapping calls is the initial value plus one, 2.
C11_CreateGivesUnlockedToken ==
    /\ [](/\ \A i \in 1..Len(issued) : issued[i] > InitialKey /\ issued[i] # 0
          /\ (~createOverlap /\ Len(issued) >= 1) =>
                (issued[1] = InitialKey + 1 /\ issued[1] = 2))
    /\ [][\A t \in Threads :
            /\ (pc[t] = "emplace" /\ ~raced[t] /\ ~createOverlap
                    /\ pc'[t] = "idle") =>
                  /\ last'.key \in DOMAIN s_SpinLockMap'
                  /\ s_SpinLockMap'[last'.key] = FALSE
                  /\ last'.key \notin Live
            /\ (pc[t] = "tas" /\ op[t] = "TryLock" /\ ~Dangling(t)
                    /\ fresh[handle[t]] /\ ~tried[handle[t]]
                    /\ pc'[t] = "idle") =>
                  (last'.thread = t /\ last'.result = "true")]_vars

\* C11 witness: the first operation on the first handle issued, a TryLock,
\* has just returned true; the handle is 2.
C11_Witness ==
    /\ ~createOverlap
    /\ Len(issued) = 1 /\ issued[1] = 2
    /\ LastIs("TryLock", "true") /\ last.handle = issued[1]
    /\ fresh[issued[1]] /\ trueCount[issued[1]] = 1

\* C12: in the single-threaded build every call is a constant success
\* without effect: whatever calls came before and whatever the handle,
\* CreateSpinLock returns 42 (not 0), Lock and TryLock return true, Unlock and
\* DestroySpinLock return; no call changes any program state and none
\* terminates the process.
C12_WebNoOps ==
    [][/\ last'.thread = WebThread
       /\ last'.op = "Create" => (last'.result = "key" /\ last'.key = 42 /\ last'.key # 0)
       /\ last'.op \in {"Lock", "TryLock"} => last'.result = "true"
       /\ last'.op \in {"Unlock", "Destroy"} => last'.result = "void"
       /\ ~terminated'
       /\ UNCHANGED <<progVars, consoleVars, timeVars>>]_vars

\* C12 witness: Lock has just returned true on a handle that was locked
\* already (a second true without an Unlock between) and had been destroyed.
C12_Witness ==
    /\ LastIs("Lock", "true")
    /\ trueCount[last.handle] = 2
    /\ ~disciplined[last.handle]

\* C13 (as claimed): ConsoleWrite(buffer, length, newline) appends to the
\* stream exactly the first `length` bytes of the buffer, whatever they are
\* (zero bytes included), then one line terminator when the flag is non-zero
\* and nothing otherwise.
C13_WritesExactlyLengthBytes ==
    [][\A b \in ByteBuffers : \A n \in 0..Len(b) : \A nl \in NewLineFlags :
          ConsoleWrite(b, n, nl) =>
              stdoutOut' \o stdoutBuf' =
                  (stdoutOut \o stdoutBuf) \o SubSeq(b, 1, n)
                      \o (IF nl # 0 THEN <<NewLine>> ELSE << >>)]_vars

IsPrefix(a, b) == Len(a) <= Len(b) /\ a = SubSeq(b, 1, Len(a))
Suffix(a, n) == SubSeq(a, Len(a) - n + 1, Len(a))
FlushReturned == last.op \in {"Flush", "EndBatchConsoleWrite"}

\* C14: once BeginBatchConsoleWrite has been called, the bytes that have
\* reached standard output are at every moment a prefix of the text of the
\* ConsoleWrite calls in call order, and together with the buffered bytes
\* they are that text; right after Flush or EndBatchConsoleWrite nothing is
\* buffered, so the output is the whole text, and it ends with the writes of
\* the batch, byte for byte, however the batch compares with the buffer size.
C14_BatchingOnlyDefers ==
    batching =>
        /\ IsPrefix(stdoutOut, consoleText)
        /\ stdoutOut \o stdoutBuf = consoleText
        /\ FlushReturned =>
              /\ stdoutBuf = << >>
              /\ stdoutOut = consoleText
              /\ Len(batchText) <= Len(stdoutOut)
              /\ Suffix(stdoutOut, Len(batchText)) = batchText

\* C14 witness: Flush has just returned in a batch whose writes exceed the
\* buffer, some of them having gone out before the flush.
C14_Witness ==
    /\ batching /\ stdoutMode = "full"
    /\ last.op = "Flush"
    /\ Len(batchText) > BufSize
    /\ stdoutBuf = << >>
    /\ Suffix(stdoutOut, Len(batchText)) = batchText

\* The calendar conversion of the call that has just ended failed.
ConversionFailed == Localtime(Seconds(tsNano), crt, tzOffset) = Null
CallEnded == tsState \in {"returned", "fault"}

\* C15 (as claimed): when localtime yields no result, both formatting
\* functions return 0 and complete normally.
C15_ConversionFailureReturnsZero ==
    (CallEnded /\ ConversionFailed) => (tsState = "returned" /\ length = 0)

\* The text GetFormattedTimeStampString is to produce for ns in time zone tz:
\* the calendar fields of the whole second that contains ns, and the
\* milliseconds elapsed within that second.
ContainingSecond(ns) == ns \div NanoPerSecond
MilliOfSecond(ns) == (ns % NanoPerSecond) \div NanoPerMilli
LayoutText(ns, tz) ==
    TimeStampText(BrokenDown(ContainingSecond(ns) + tz), MilliOfSecond(ns))
IsDigit(c) == c \in {"0", "1", "2", "3", "4", "5", "6", "7", "8", "9"}

\* C16 (as claimed): for every tsNano, negative ones included, whose calendar
\* conversion succeeds (the year has four digits), GetFormattedTimeStampString
\* called with a buffer that has room produces the 23 characters
\* YYYY-MM-DD HH:MM:SS,mmm where mmm is three decimal digits and the
\* calendar fields are those of the whole second that contains tsNano.
C16_LayoutForEveryTimeStamp ==
    (tsState = "returned" /\ fn = "GetFormattedTimeStampString"
        /\ ~ConversionFailed /\ bufferSize > 23) =>
        /\ length = 23
        /\ Len(buffer) = 23
        /\ \A i \in 21..23 : IsDigit(buffer[i])
        /\ buffer = LayoutText(tsNano, tzOffset)

\* C20 (as claimed): the value returned is the number of characters stored
\* in the caller's buffer: at most bufferSize - 1 for every bufferSize >= 1.
C20_LengthIsCharsStored ==
    (tsState = "returned" /\ bufferSize >= 1) =>
        /\ 0 <= length /\ length <= bufferSize - 1
        /\ length = Len(buffer)

\* C20 (amended): the value returned is the length of the complete formatted
\* text, whether or not it fits (23, respectively 12, for a timestamp that
\* is not negative); the buffer holds the first bufferSize - 1 characters of
\* the text, or all of it when it is shorter.
C20_LengthIsFormattedLength ==
    (tsState = "returned" /\ bufferSize >= 1) =>
        /\ length >= 0
        /\ Len(buffer) = IF length < bufferSize - 1 THEN length ELSE bufferSize - 1
        /\ ~ConversionFailed =>
              LET text == FormattedText(fn, Localtime(Seconds(tsNano), crt, tzOffset),
                                        tsNano)
              IN  /\ length = Len(text)
                  /\ buffer = SubSeq(text, 1, Len(buffer))
                  /\ tsNano >= 0 =>
                        length = IF fn = "GetFormattedTimeStampString" THEN 23 ELSE 12

\* C20 witness: GetFormattedTimeStampString has returned 23 for a buffer of
\* 12 bytes, which holds 11 characters.
C20_Witness ==
    /\ tsState = "returned" /\ fn = "GetFormattedTimeStampString"
    /\ tsNano >= 0
    /\ bufferSize = 12 /\ length = 23 /\ Len(buffer) = 11

\* The step leaves every entry of the table other than h's as it is.
OthersKept(h) ==
    \A g \in Live \ {h} :
        g \in DOMAIN s_SpinLockMap' /\ s_SpinLockMap'[g] = s_SpinLockMap[g]

\* C17: an operation on h leaves every other handle alone.  When
\* DestroySpinLock(h) returns, every other token has its entry and its state,
\* no entry has appeared, the counter is as before and (unless the removal
\* overlapped another table access) h is gone, locked or not; a test-and-set
\* or clear on h changes at most h's flag; and a Lock or TryLock that tests
\* a clear flag succeeds, whoever holds other handles.
C17_OtherHandlesUntouched ==
    [][\A t \in Threads :
          /\ (pc[t] = "erase" /\ pc'[t] = "idle") =>
                /\ OthersKept(handle[t])
                /\ DOMAIN s_SpinLockMap' \subseteq Live
                /\ ~raced[t] => handle[t] \notin DOMAIN s_SpinLockMap'
                /\ s_NextKey' = s_NextKey
          /\ (pc[t] \in {"tas", "clear"} /\ pc'[t] \notin {pc[t], "dead"}) =>
                /\ OthersKept(handle[t])
                /\ DOMAIN s_SpinLockMap' = Live
                /\ s_NextKey' = s_NextKey
          /\ (pc[t] = "tas" /\ ~Dangling(t) /\ ~s_SpinLockMap[handle[t]]
                  /\ pc'[t] \notin {"tas", "dead"}) =>
                /\ last'.thread = t /\ last'.result = "true"
                /\ s_SpinLockMap'[handle[t]]]_vars

\* C17 witness: DestroySpinLock has just returned while another token is
\* locked and held; that token is still in the table and still locked.
C17_Witness ==
    /\ LastIs("Destroy", "void")
    /\ last.handle \notin Live
    /\ \E g \in Live : g # last.handle /\ s_SpinLockMap[g] /\ holders[g] # {}

\* C18 (as claimed): a thread spinning in Lock(h) never test-and-sets the
\* flag of an entry that has been removed, and its call never returns true
\* once h is gone.
C18_SpinnerNeverUsesRemovedEntry ==
    /\ \A t \in Threads :
          (op[t] = "Lock" /\ spun[t] /\ pc[t] = "tas") => ~Dangling(t)
    /\ (LastIs("Lock", "true") /\ last.spun) => last.handle \in Live

\* C18 (amended): a lookup of the spinning call that ends when h is no
\* longer in the table terminates the process; the spinner holds a reference
\* to a missing entry only when the entry was removed after its lookup, and
\* the test-and-set it then performs is undefined.
C18_LookupAfterDestroyTerminates ==
    /\ [](\A t \in Threads :
            (op[t] = "Lock" /\ pc[t] = "tas" /\ handle[t] \notin Live) => dangling[t])
    /\ [][\A t \in Threads :
            (op[t] = "Lock" /\ spun[t] /\ pc[t] = "find" /\ handle[t] \notin Live
                /\ pc'[t] # "find") =>
                (terminated' /\ last'.result = "terminate")]_vars

\* C18 witness: a Lock call that had gone round its loop has terminated the
\* process at a lookup, its handle having been destroyed.
C18_Witness ==
    /\ terminated
    /\ LastIs("Lock", "terminate") /\ last.spun
    /\ last.handle \notin Live
    /\ \E i \in 1..Len(issued) : issued[i] = last.handle

\* C19: the lock is not reentrant.  While h is live, was never destroyed and
\* is unlocked only by its holder, a test-and-set by the thread that holds h
\* finds the flag set: its TryLock(h) returns false and its Lock(h) goes
\* round the loop again, where its next lookup (if no other thread's table
\* access overlaps it) finds h again: that Lock(h) does not return.
C19_NotReentrant ==
    [][\A t \in Threads :
          /\ (pc[t] = "find" /\ op[t] = "Lock" /\ spun[t] /\ ~raced[t]
                 /\ handle[t] \in Live /\ t \in holders[handle[t]]
                 /\ disciplined[handle[t]] /\ pc'[t] # "find") =>
                 (pc'[t] = "tas" \/ (terminated' /\ last'.thread # t))
          /\ (pc[t] = "tas" /\ ~Dangling(t) /\ t \in holders[handle[t]]
                 /\ disciplined[handle[t]] /\ pc'[t] # "tas" /\ ~terminated') =>
                 IF op[t] = "TryLock"
                 THEN last'.thread = t /\ last'.result = "false"
                 ELSE pc'[t] = "find" /\ spun'[t] /\ last' = NoCall]_vars

\* C19 witness: the only thread that has ever made a call holds h and is
\* spinning in a second Lock(h).
C19_Witness ==
    \E t \in Threads :
        /\ op[t] = "Lock" /\ spun[t] /\ pc[t] = "find"
        /\ handle[t] \in Live
        /\ holders[handle[t]] = {t} /\ disciplined[handle[t]]
        /\ \A u \in Threads \ {t} : pc[u] = "idle"
        /\ ~createOverlap
====
